---- MODULE Spec2Model ----
(***************************************************************************)
(* Model of the HashDB core of deer-tools: the record store (db.py), the   *)
(* rescan decision (scanner.py), the threaded hashing engine with batched  *)
(* commits (hasher.py, cli.py cmd_scan), duplicate grouping (deduper.py),  *)
(* the maintenance pass (maintenance.py), the shared pooled worker         *)
(* (shared/worker.py), the stepwise dedupe run with quarantine moves       *)
(* (deduper.py), concurrent safe_rename calls (shared/path_utils.py) and   *)
(* the undo-transfer restore loop (undo_transfer/restorer.py).             *)
(***************************************************************************)
EXTENDS Integers, Sequences, FiniteSets, TLC

\* ------------------------------------------------------------------------
\* Bounds of the model
\* ------------------------------------------------------------------------
MaxMtime == 2        \* modification times range over 1..MaxMtime
MaxEnvSteps == 1     \* out-of-band filesystem changes per behaviour
MaxCmds == 2         \* commands (scan, dedupe, cleanup, upsert) per behaviour
MaxFaults == 1       \* failing record writes per behaviour
MaxBatch == 2        \* largest batch size tried
MaxThreads == 2      \* widest pool of process_parallel_chunked tried
MaxItems == 3        \* items handed to process_parallel_chunked

\* ------------------------------------------------------------------------
\* The directory tree
\* ------------------------------------------------------------------------
Paths == {"/a/photo.jpg", "/a/deep/photo_1.jpg", "/a/notes.txt"}

\* os.path.basename / Path.name of each path of the tree
Filename(p) ==
    CASE p = "/a/photo.jpg" -> "photo.jpg"
      [] p = "/a/deep/photo_1.jpg" -> "photo_1.jpg"
      [] OTHER -> "notes.txt"

Contents == 0..2     \* 0 is the empty (zero-byte) content
NULL == 0            \* SQL NULL / Python None in a column
PermKinds == {"ok", "noread", "nostat"}

\* stat().st_size of a file holding content c
Size(c) == c

\* hashlib digests: injective on contents, disjoint between algorithms,
\* never NULL
compute_hash(c, hash_type) == IF hash_type = "md5" THEN 100 + c ELSE 200 + c

\* datetime.fromtimestamp(st_mtime).isoformat(): an injective rendering of
\* the timestamp as a string, never None
IsoFormat(t) == 1000 + t

HashTypes == {"md5", "sha256"}

VARIABLES
    fs,             \* path -> [exists, content, mtime]
    perm,           \* path -> "ok" | "noread" (stat works, open fails) | "nostat"
    durable,        \* committed rows of table file_hashes, in rowid order
    conn,           \* rows as seen through the open connection (uncommitted included)
    pc,             \* position of the running command
    args,           \* arguments of the running scan command
    work,           \* work list returned by build_work_list (set of metas)
    fut,            \* path -> state of its hash_worker future
    res,            \* path -> result of its future (record or None)
    drained,        \* futures already yielded by as_completed
    results,        \* run_hashing: results
    pending_batch,  \* run_hashing: pending_batch
    batches,        \* batches the batch callback stored successfully in this run
    outcome,        \* how the last command ended
    clock,          \* datetime.now(), one tick per command
    envSteps, faults,  \* budgets of the bounded model
    quiet,          \* incremental scans completed in a row with nothing else happening
    quietAtStart,   \* value of quiet when the latest scan began
    dirty,          \* something else happened since the running scan began
    failedWrite,    \* the batch whose flush raised in this run (<<>> if none)
    failedAt,       \* index in that batch of the record whose write raised
    lastDups,       \* groups found by the last dedupe run
    pool,           \* state of BaseWorker.process_parallel_chunked
    dd,             \* state of a stepwise run of cmd_dedupe / dedupe
    mt,             \* state of a stepwise run of run_cleanup
    rn,             \* state of concurrent safe_rename calls
    rs              \* state of a run of the undo-transfer restore

vars == <<fs, perm, durable, conn, pc, args, work, fut, res, drained, results,
          pending_batch, batches, outcome, clock, envSteps, faults,
          quiet, quietAtStart, dirty, failedWrite, failedAt, lastDups,
          pool, dd, mt, rn, rs>>

scanVars == <<pc, args, work, fut, res, drained, results, pending_batch,
              batches, outcome, failedWrite, failedAt>>

None == [filepath |-> "None"]

\* ------------------------------------------------------------------------
\* Sequence helpers
\* ------------------------------------------------------------------------
Range(s) == {s[i] : i \in 1..Len(s)}

\* ------------------------------------------------------------------------
\* Store (db.py, cli.py commit_batch)
\* ------------------------------------------------------------------------
\* index of the row holding filepath p, 0 if there is none
RowIndex(rows, p) ==
    IF \E i \in 1..Len(rows) : rows[i].filepath = p
    THEN CHOOSE i \in 1..Len(rows) : rows[i].filepath = p
    ELSE 0

HasRecord(rows, p) == \E i \in 1..Len(rows) : rows[i].filepath = p

\* db.py upsert_file_record: INSERT ... ON CONFLICT(filepath) DO UPDATE SET
\* every column except filepath to the value of the new record
upsert_file_record(rows, record) ==
    LET i == RowIndex(rows, record.filepath)
    IN IF i = 0 THEN Append(rows, record)
       ELSE [rows EXCEPT ![i] = record]

\* cli.py commit_batch, the statement executed for one record: on conflict
\* imported_on and flags keep their stored values
commit_batch_always_insert(rows, rec) == Append(rows, rec)

commit_batch_execute(rows, rec) ==
    LET i == RowIndex(rows, rec.filepath)
    IN IF i = 0 THEN Append(rows, rec)
       ELSE [rows EXCEPT ![i] =
                [rec EXCEPT !.imported_on = rows[i].imported_on,
                            !.flags = rows[i].flags]]

\* the rows after executing the statement for recs[1..n], in order
RECURSIVE ExecuteAll(_, _, _)
ExecuteAll(rows, recs, n) ==
    IF n = 0 THEN rows
    ELSE commit_batch_execute(ExecuteAll(rows, recs, n - 1), recs[n])

\* DELETE FROM file_hashes WHERE filepath = ? for every path of gone
RECURSIVE remove_missing_from_db(_, _)
remove_missing_from_db(rows, gone) ==
    IF rows = <<>> THEN <<>>
    ELSE IF Head(rows).filepath \in gone
         THEN remove_missing_from_db(Tail(rows), gone)
         ELSE <<Head(rows)>> \o remove_missing_from_db(Tail(rows), gone)

\* ------------------------------------------------------------------------
\* Filesystem primitives
\* ------------------------------------------------------------------------
\* os.path.exists: False when the path is gone or cannot be stat'ed
PathExists(p) == fs[p].exists /\ perm[p] # "nostat"

\* Path.stat() succeeds
CanStat(p) == fs[p].exists /\ perm[p] # "nostat"

\* open(path, "rb") and reading it succeed
CanRead(p) == fs[p].exists /\ perm[p] = "ok"

\* os.walk lists the directory entry
Listed(p) == fs[p].exists

\* ------------------------------------------------------------------------
\* Scanner (scanner.py)
\* ------------------------------------------------------------------------
\* get_file_metadata, on a platform without st_birthtime (created_on None)
get_file_metadata(p) ==
    [filepath |-> p,
     filename |-> Filename(p),
     size_bytes |-> Size(fs[p].content),
     created_on |-> NULL,
     modified_on |-> IsoFormat(fs[p].mtime)]

\* build_work_list: the filepath -> modified_on dict loaded in one query;
\* a later row of the same filepath overwrites an earlier one
ModifiedIndex(rows) ==
    [p \in {rows[i].filepath : i \in 1..Len(rows)} |->
        LET last == CHOOSE i \in 1..Len(rows) :
                       /\ rows[i].filepath = p
                       /\ \A j \in (i + 1)..Len(rows) : rows[j].filepath # p
        IN rows[last].modified_on]

\* build_work_list._get_db_record: None when the dict has no entry or the
\* entry is None
get_db_record(index, p) ==
    IF p \in DOMAIN index /\ index[p] # NULL
    THEN [modified_on |-> index[p]]
    ELSE None

needs_rescan_mode_inverted(db_record, meta, rescan_mode) ==
    db_record = None \/ rescan_mode
       \/ db_record.modified_on # meta.modified_on

needs_rescan_ignores_mtime(db_record, meta, rescan_mode) ==
    db_record = None \/ ~rescan_mode

needs_rescan(db_record, meta, rescan_mode) ==
    IF db_record = None THEN TRUE
    ELSE IF ~rescan_mode THEN TRUE
    ELSE db_record.modified_on # meta.modified_on

\* a walk that gives up at the first file whose metadata cannot be read
build_work_list_aborts(rows, rescan_mode) ==
    LET index == ModifiedIndex(rows)
    IN IF \E q \in Paths : Listed(q) /\ ~CanStat(q)
       THEN {}
       ELSE {get_file_metadata(p) : p \in
               {q \in Paths : /\ Listed(q)
                              /\ needs_rescan(get_db_record(index, q),
                                              get_file_metadata(q),
                                              rescan_mode)}}

\* build_work_list: _meta_safe returns None when get_file_metadata raises
\* and the loop skips it; every other file goes through needs_rescan
build_work_list(rows, rescan_mode) ==
    LET index == ModifiedIndex(rows)
    IN {get_file_metadata(p) : p \in
          {q \in Paths : /\ Listed(q)
                         /\ CanStat(q)
                         /\ needs_rescan(get_db_record(index, q),
                                         get_file_metadata(q), rescan_mode)}}

\* ------------------------------------------------------------------------
\* Hasher (hasher.py)
\* ------------------------------------------------------------------------
hash_worker_keeps_failures(meta, hash_type, now) ==
    [filepath |-> meta.filepath,
     filename |-> meta.filename,
     size_bytes |-> meta.size_bytes,
     created_on |-> meta.created_on,
     modified_on |-> meta.modified_on,
     imported_on |-> now,
     last_scanned_on |-> now,
     hash_md5 |-> IF hash_type = "md5"
                  THEN compute_hash(fs[meta.filepath].content, "md5") ELSE NULL,
     hash_sha256 |-> IF hash_type = "sha256"
                  THEN compute_hash(fs[meta.filepath].content, "sha256") ELSE NULL,
     flags |-> NULL]

\* hash_worker: None when compute_hash raises, else the DB-ready record
hash_worker(meta, hash_type, now) ==
    IF ~CanRead(meta.filepath) THEN None
    ELSE hash_worker_keeps_failures(meta, hash_type, now)

\* ------------------------------------------------------------------------
\* Deduper (deduper.py)
\* ------------------------------------------------------------------------
HashCol(row, hash_type) ==
    IF hash_type = "md5" THEN row.hash_md5 ELSE row.hash_sha256

\* find_duplicates, the loop over cur.fetchall(): the groups dict after the
\* first n rows of SELECT * ... WHERE col IS NOT NULL
RECURSIVE GroupRows(_, _, _)
GroupRows(rows, hash_type, n) ==
    IF n = 0 THEN <<>>
    ELSE LET groups == GroupRows(rows, hash_type, n - 1)
             row == rows[n]
             h == HashCol(row, hash_type)
         IN IF h = NULL THEN groups
            ELSE IF h \in DOMAIN groups
                 THEN [groups EXCEPT ![h] = Append(@, row)]
                 ELSE [k \in DOMAIN groups \cup {h} |->
                         IF k = h THEN <<row>> ELSE groups[k]]

find_duplicates_keeps_singletons(rows, hash_type) ==
    GroupRows(rows, hash_type, Len(rows))

\* find_duplicates: only the groups with more than one row are returned
find_duplicates(rows, hash_type) ==
    LET groups == GroupRows(rows, hash_type, Len(rows))
    IN [h \in {k \in DOMAIN groups : Len(groups[k]) > 1} |-> groups[h]]

\* score_file, times 10^4 to stay in the integers:
\* +10 for a copy indicator in the lower-cased basename, + number of
\* os.sep in the path, + len(name) / 10, - getctime(path) / 1e6 (skipped
\* when getctime raises); ctime is given in units of 100 seconds
CopyIndicator(p) == p = "/a/deep/photo_1.jpg"
SepCount(p) ==
    CASE p = "/a/photo.jpg" -> 2
      [] p = "/a/deep/photo_1.jpg" -> 3
      [] OTHER -> 2
NameLen(p) ==
    CASE p = "/a/photo.jpg" -> 9
      [] p = "/a/deep/photo_1.jpg" -> 11
      [] OTHER -> 9

\* inode change times a file of the tree can carry (units of 100 seconds):
\* a day and about 139 days after the first
Ctimes == {17000000, 17000864, 17120000}

score_file(p, ctime) ==
    (IF CopyIndicator(p) THEN 100000 ELSE 0)
    + 10000 * SepCount(p)
    + 1000 * NameLen(p)
    - (IF PathExists(p) THEN ctime[p] ELSE 0)

choose_best_file_last(rows, ctime) ==
    LET best == CHOOSE i \in 1..Len(rows) :
                   /\ \A j \in 1..Len(rows) :
                         score_file(rows[i].filepath, ctime)
                            <= score_file(rows[j].filepath, ctime)
                   /\ \A j \in (i + 1)..Len(rows) :
                         score_file(rows[j].filepath, ctime)
                            > score_file(rows[i].filepath, ctime)
    IN rows[best]

\* choose_best_file: min(rows, key=score): the first row of least score
choose_best_file(rows, ctime) ==
    LET best == CHOOSE i \in 1..Len(rows) :
                   /\ \A j \in 1..Len(rows) :
                         score_file(rows[i].filepath, ctime)
                            <= score_file(rows[j].filepath, ctime)
                   /\ \A j \in 1..(i - 1) :
                         score_file(rows[j].filepath, ctime)
                            > score_file(rows[i].filepath, ctime)
    IN rows[best]

\* ------------------------------------------------------------------------
\* Connection handling (db.py open_db)
\* ------------------------------------------------------------------------
open_db_exit_always_commits(committed, view, raised) == view

\* what is on disk once the with-block of open_db is left: the body's
\* writes are committed unless an exception left the block
open_db_exit(committed, view, raised) ==
    IF raised THEN committed ELSE view

\* ------------------------------------------------------------------------
\* Initial state: an empty store and a tree of three files, two of them
\* byte-identical; permissions are fixed for the whole behaviour
\* ------------------------------------------------------------------------
\* the permission layouts tried: one file that may be unreadable (stat
\* works, open fails) and one whose stat may fail (broken link)
PermChoices ==
    {f \in [Paths -> PermKinds] :
        /\ f["/a/photo.jpg"] = "ok"
        /\ f["/a/deep/photo_1.jpg"] \in {"ok", "noread"}
        /\ f["/a/notes.txt"] \in {"ok", "nostat"}}

NoFutures == [p \in Paths |-> "none"]
NoResults == [p \in Paths |-> None]
NoArgs == [hash |-> "md5", full |-> FALSE, batch_size |-> 1]
PoolIdle == [pc |-> "off"]
DedupeIdle == [pc |-> "off"]
CleanupIdle == [pc |-> "off"]
RenameIdle == [pc |-> "off"]
RestoreIdle == [pc |-> "off"]

Init ==
    /\ fs = [p \in Paths |->
               [exists |-> TRUE,
                content |-> IF p = "/a/notes.txt" THEN 2 ELSE 1,
                mtime |-> 1]]
    /\ perm \in PermChoices
    /\ durable = <<>>
    /\ conn = <<>>
    /\ pc = "idle"
    /\ args = NoArgs
    /\ work = {}
    /\ fut = NoFutures
    /\ res = NoResults
    /\ drained = {}
    /\ results = <<>>
    /\ pending_batch = <<>>
    /\ batches = <<>>
    /\ outcome = "none"
    /\ clock = 0
    /\ envSteps = 0
    /\ faults = 0
    /\ quiet = 0
    /\ quietAtStart = 0
    /\ dirty = FALSE
    /\ failedWrite = <<>>
    /\ failedAt = 0
    /\ lastDups = <<>>
    /\ pool = PoolIdle
    /\ dd = DedupeIdle
    /\ mt = CleanupIdle
    /\ rn = RenameIdle
    /\ rs = RestoreIdle

WorkPaths == {m.filepath : m \in work}
MetaOf(p) == CHOOSE m \in work : m.filepath = p
Min(a, b) == IF a < b THEN a ELSE b

\* ------------------------------------------------------------------------
\* cmd_scan (cli.py) and run_hashing (hasher.py)
\* ------------------------------------------------------------------------
\* cmd_scan up to the submission of the futures: open_db, ensure_schema,
\* build_work_list, run_hashing's early return on an empty work list
ScanBegin(full, hash_type, batch_size) ==
    /\ pc = "idle"
    /\ clock < MaxCmds
    /\ LET w == build_work_list(conn, ~full)
       IN /\ work' = w
          /\ IF w = {}
             THEN /\ pc' = "idle"
                  /\ outcome' = "ok"
                  /\ fut' = NoFutures
                  /\ quiet' = IF full THEN 0 ELSE Min(quiet + 1, 2)
             ELSE /\ pc' = "loop"
                  /\ outcome' = "running"
                  /\ fut' = [p \in Paths |->
                               IF p \in {m.filepath : m \in w}
                               THEN "pending" ELSE "none"]
                  /\ quiet' = quiet
    /\ args' = [hash |-> hash_type, full |-> full, batch_size |-> batch_size]
    /\ clock' = clock + 1
    /\ res' = NoResults
    /\ drained' = {}
    /\ results' = <<>>
    /\ pending_batch' = <<>>
    /\ batches' = <<>>
    /\ failedWrite' = <<>>
    /\ failedAt' = 0
    /\ quietAtStart' = quiet
    /\ dirty' = FALSE
    /\ UNCHANGED <<fs, perm, durable, conn, envSteps, faults, lastDups, pool, dd, mt, rn, rs>>

\* a pool thread that would write its record to the store itself
WorkerWritesRecord(p) ==
    /\ pc \in {"loop", "flush", "raising"}
    /\ fut[p] = "pending"
    /\ fut' = [fut EXCEPT ![p] = "done"]
    /\ res' = [res EXCEPT ![p] = hash_worker(MetaOf(p), args.hash, clock)]
    /\ conn' = IF res'[p] # None THEN commit_batch_execute(conn, res'[p])
                                 ELSE conn
    /\ UNCHANGED <<fs, perm, durable, pc, args, work, drained,
                   results, pending_batch, batches, outcome, clock, envSteps,
                   faults, quiet, quietAtStart, dirty, failedWrite, failedAt,
                   lastDups, pool, dd, mt, rn, rs>>

\* a pool thread takes a queued future and runs hash_worker on it (also
\* while the submitting thread is in the batch callback, or while an
\* exception waits in the executor's exit)
Worker(p) ==
    /\ pc \in {"loop", "flush", "raising"}
    /\ fut[p] = "pending"
    /\ fut' = [fut EXCEPT ![p] = "done"]
    /\ res' = [res EXCEPT ![p] = hash_worker(MetaOf(p), args.hash, clock)]
    /\ UNCHANGED <<fs, perm, durable, conn, pc, args, work, drained,
                   results, pending_batch, batches, outcome, clock, envSteps,
                   faults, quiet, quietAtStart, dirty, failedWrite, failedAt,
                   lastDups, pool, dd, mt, rn, rs>>

AfterBody(d) == IF d = WorkPaths THEN "final" ELSE "loop"

\* run_hashing: "if batch_callback and len(pending_batch) >= batch_size"
flush_due_late(n, batch_size) == n > batch_size

flush_due(n, batch_size) == n >= batch_size

\* run_hashing has no handler around batch_callback(pending_batch): an
\* exception raised by the callback leaves the loop
after_callback_error_swallowed(d) == AfterBody(d)

after_callback_error(d) == "raising"

\* one iteration of "for i, future in enumerate(as_completed(futures))" up
\* to the call of the batch callback
Drain(p) ==
    /\ pc = "loop"
    /\ fut[p] = "done"
    /\ p \notin drained
    /\ drained' = drained \cup {p}
    /\ IF res[p] # None
       THEN /\ results' = Append(results, res[p])
            /\ pending_batch' = Append(pending_batch, res[p])
            /\ pc' = IF flush_due(Len(pending_batch) + 1, args.batch_size)
                     THEN "flush" ELSE AfterBody(drained')
       ELSE /\ UNCHANGED <<results, pending_batch>>
            /\ pc' = AfterBody(drained')
    /\ UNCHANGED <<fs, perm, durable, conn, args, work, fut, res, batches,
                   outcome, clock, envSteps, faults, quiet, quietAtStart,
                   dirty, failedWrite, failedAt, lastDups, pool, dd, mt, rn, rs>>

\* commit_batch called from the loop: every record is written, then
\* conn.commit(); run_hashing then empties pending_batch
FlushOk ==
    /\ pc = "flush"
    /\ conn' = ExecuteAll(conn, pending_batch, Len(pending_batch))
    /\ durable' = conn'
    /\ batches' = Append(batches, pending_batch)
    /\ pending_batch' = <<>>
    /\ pc' = AfterBody(drained)
    /\ UNCHANGED <<fs, perm, args, work, fut, res, drained, results, outcome,
                   clock, envSteps, faults, quiet, quietAtStart, dirty,
                   failedWrite, failedAt, lastDups, pool, dd, mt, rn, rs>>

\* commit_batch called from the loop, the write of record k raises: the
\* records before k are written and not committed, the exception leaves
\* commit_batch and the loop of run_hashing
FlushFails(k) ==
    /\ pc = "flush"
    /\ faults < MaxFaults
    /\ k \in 1..Len(pending_batch)
    /\ faults' = faults + 1
    /\ conn' = ExecuteAll(conn, pending_batch, k - 1)
    /\ failedWrite' = pending_batch
    /\ failedAt' = k
    /\ pc' = after_callback_error(drained)
    /\ UNCHANGED <<fs, perm, durable, args, work, fut, res, drained, results,
                   pending_batch, batches, outcome, clock, envSteps, 
                   quiet, quietAtStart, dirty, lastDups, pool, dd, mt, rn, rs>>

\* the exception leaves "with ThreadPoolExecutor" (which waits for every
\* submitted future), run_hashing, and "with open_db" (close, no commit)
Unwind ==
    /\ pc = "raising"
    /\ \A p \in Paths : fut[p] \in {"none", "done"}
    /\ durable' = open_db_exit(durable, conn, TRUE)
    /\ conn' = durable'
    /\ pc' = "idle"
    /\ outcome' = "error"
    /\ quiet' = 0
    /\ fut' = NoFutures
    /\ res' = NoResults
    /\ drained' = {}
    /\ UNCHANGED <<fs, perm, args, work, results,
                   pending_batch, batches, clock, envSteps, faults,
                   quietAtStart, dirty, failedWrite, failedAt, lastDups, pool, dd, mt, rn, rs>>

\* after the loop: the executor is left, the remaining records are flushed,
\* run_hashing returns, open_db commits and closes
FinishOk ==
    /\ pc = "final"
    /\ LET view == ExecuteAll(conn, pending_batch, Len(pending_batch))
       IN /\ durable' = open_db_exit(IF pending_batch # <<>> THEN view
                                                           ELSE durable,
                                     view, FALSE)
          /\ conn' = durable'
    /\ batches' = IF pending_batch # <<>> THEN Append(batches, pending_batch)
                                         ELSE batches
    /\ pc' = "idle"
    /\ outcome' = "ok"
    /\ quiet' = IF dirty \/ args.full THEN 0 ELSE Min(quiet + 1, 2)
    /\ fut' = NoFutures
    /\ res' = NoResults
    /\ drained' = {}
    /\ UNCHANGED <<fs, perm, args, work, results,
                   pending_batch, clock, envSteps, faults, quietAtStart,
                   dirty, failedWrite, failedAt, lastDups, pool, dd, mt, rn, rs>>

\* after the loop, the write of record k of the last batch raises: the
\* exception leaves commit_batch, run_hashing and "with open_db"
FinishFails(k) ==
    /\ pc = "final"
    /\ faults < MaxFaults
    /\ k \in 1..Len(pending_batch)
    /\ faults' = faults + 1
    /\ durable' = open_db_exit(durable,
                               ExecuteAll(conn, pending_batch, k - 1), TRUE)
    /\ conn' = durable'
    /\ failedWrite' = pending_batch
    /\ failedAt' = k
    /\ pc' = "idle"
    /\ outcome' = "error"
    /\ quiet' = 0
    /\ fut' = NoFutures
    /\ res' = NoResults
    /\ drained' = {}
    /\ UNCHANGED <<fs, perm, args, work, results,
                   pending_batch, batches, clock, envSteps, 
                   quietAtStart, dirty, lastDups, pool, dd, mt, rn, rs>>

\* ------------------------------------------------------------------------
\* Direct use of the store API: with open_db(...): upsert_file_record(...)
\* ------------------------------------------------------------------------
\* a record that carries the filepath, the filename and one hash value;
\* record.get(field) is None for every other column
PartialRecord(p, hash_type, c) ==
    [filepath |-> p,
     filename |-> Filename(p),
     size_bytes |-> NULL,
     created_on |-> NULL,
     modified_on |-> NULL,
     imported_on |-> NULL,
     last_scanned_on |-> NULL,
     hash_md5 |-> IF hash_type = "md5" THEN compute_hash(c, "md5") ELSE NULL,
     hash_sha256 |-> IF hash_type = "sha256" THEN compute_hash(c, "sha256")
                                             ELSE NULL,
     flags |-> NULL]

ApiContents == {1}

ApiUpsert(p, hash_type, c) ==
    /\ pc = "idle"
    /\ clock < MaxCmds
    /\ clock' = clock + 1
    /\ durable' = open_db_exit(durable,
                     upsert_file_record(conn, PartialRecord(p, hash_type, c)),
                     FALSE)
    /\ conn' = durable'
    /\ quiet' = 0
    /\ dirty' = TRUE
    /\ work' = {}
    /\ args' = NoArgs
    /\ results' = <<>>
    /\ pending_batch' = <<>>
    /\ batches' = <<>>
    /\ failedWrite' = <<>>
    /\ failedAt' = 0
    /\ outcome' = "done"
    /\ UNCHANGED <<pc, fut, res, drained>>
    /\ UNCHANGED <<fs, perm, envSteps, faults, quietAtStart,
                   lastDups, pool, dd, mt, rn, rs>>

\* ------------------------------------------------------------------------
\* cmd_dedupe (cli.py) / dedupe (deduper.py)
\* ------------------------------------------------------------------------
\* delete_or_quarantine for one group: the paths whose file is removed from
\* its place (os.remove or shutil.move succeeded)
Removed(rows, keep, fail) ==
    {rows[i].filepath : i \in 1..Len(rows)}
       \ ({keep.filepath} \cup fail \cup {q \in Paths : ~PathExists(q)})

Dedupe(hash_type, safe_delete, ctime, fail) ==
    /\ pc = "idle"
    /\ clock < MaxCmds
    /\ clock' = clock + 1
    /\ LET dups == find_duplicates(conn, hash_type)
           gone == UNION {Removed(dups[h], choose_best_file(dups[h], ctime),
                                  fail) : h \in DOMAIN dups}
       IN /\ fs' = [p \in Paths |->
                      IF p \in gone THEN [fs[p] EXCEPT !.exists = FALSE]
                      ELSE fs[p]]
          /\ lastDups' = dups
    /\ durable' = open_db_exit(durable, conn, FALSE)
    /\ conn' = durable'
    /\ quiet' = 0
    /\ dirty' = TRUE
    /\ work' = {}
    /\ args' = NoArgs
    /\ results' = <<>>
    /\ pending_batch' = <<>>
    /\ batches' = <<>>
    /\ failedWrite' = <<>>
    /\ failedAt' = 0
    /\ outcome' = "done"
    /\ UNCHANGED <<pc, fut, res, drained>>
    /\ UNCHANGED <<perm, envSteps, faults, quietAtStart, pool, dd, mt, rn, rs>>

\* ------------------------------------------------------------------------
\* cmd_cleanup (cli.py) / run_cleanup (maintenance.py)
\* ------------------------------------------------------------------------
list_all_filepaths(rows) == {rows[i].filepath : i \in 1..Len(rows)}

find_missing_files_parallel(filepaths) == {p \in filepaths : ~PathExists(p)}

find_zero_byte_files_parallel(filepaths) ==
    {p \in filepaths : PathExists(p) /\ Size(fs[p].content) = 0}

Cleanup(delete_zero_bytes, fail) ==
    /\ pc = "idle"
    /\ clock < MaxCmds
    /\ clock' = clock + 1
    /\ LET filepaths == list_all_filepaths(conn)
           missing == find_missing_files_parallel(filepaths)
           zero_bytes == find_zero_byte_files_parallel(filepaths)
           deleted == IF delete_zero_bytes THEN zero_bytes \ fail ELSE {}
       IN /\ conn' = remove_missing_from_db(conn, missing)
          /\ durable' = conn'
          /\ fs' = [p \in Paths |->
                      IF p \in deleted THEN [fs[p] EXCEPT !.exists = FALSE]
                      ELSE fs[p]]
    /\ quiet' = 0
    /\ dirty' = TRUE
    /\ work' = {}
    /\ args' = NoArgs
    /\ results' = <<>>
    /\ pending_batch' = <<>>
    /\ batches' = <<>>
    /\ failedWrite' = <<>>
    /\ failedAt' = 0
    /\ outcome' = "done"
    /\ UNCHANGED <<pc, fut, res, drained>>
    /\ UNCHANGED <<perm, envSteps, faults, quietAtStart,
                   lastDups, pool, dd, mt, rn, rs>>

\* ------------------------------------------------------------------------
\* Out-of-band changes of the tree
\* ------------------------------------------------------------------------
\* A change of file p commutes with every step that does not read p, so the
\* changes are taken at the points that order them against every read:
\* between commands, and after build_work_list has read the metadata but
\* before any hash_worker has opened a file.
EnvPoint ==
    \/ pc = "idle"
    \/ pc = "loop" /\ drained = {} /\ \A p \in Paths : fut[p] \in {"none", "pending"}

\* the content a rewrite of the file leaves: 1 -> 2 -> 0 (truncated) -> 1
Rewrite(c) == (c + 1) % 3

EnvModify(p, c) ==
    /\ envSteps < MaxEnvSteps
    /\ EnvPoint
    /\ fs[p].exists
    /\ c = Rewrite(fs[p].content)
    /\ fs[p].mtime < MaxMtime
    /\ fs' = [fs EXCEPT ![p] = [exists |-> TRUE, content |-> c,
                                mtime |-> fs[p].mtime + 1]]
    /\ envSteps' = envSteps + 1
    /\ quiet' = 0
    /\ dirty' = TRUE
    /\ UNCHANGED <<perm, durable, conn, scanVars, clock, faults,
                   quietAtStart, lastDups, pool, dd, mt, rn, rs>>

EnvDelete(p) ==
    /\ envSteps < MaxEnvSteps
    /\ EnvPoint
    /\ fs[p].exists
    /\ fs' = [fs EXCEPT ![p].exists = FALSE]
    /\ envSteps' = envSteps + 1
    /\ quiet' = 0
    /\ dirty' = TRUE
    /\ UNCHANGED <<perm, durable, conn, scanVars, clock, faults,
                   quietAtStart, lastDups, pool, dd, mt, rn, rs>>

Next ==
    \/ \E full \in BOOLEAN, h \in HashTypes, b \in 1..MaxBatch :
          ScanBegin(full, h, b)
    \/ \E p \in Paths : Worker(p)
    \/ \E p \in Paths : Drain(p)
    \/ FlushOk
    \/ \E k \in 1..MaxBatch : FlushFails(k)
    \/ Unwind
    \/ FinishOk
    \/ \E k \in 1..MaxBatch : FinishFails(k)
    \/ \E p \in Paths, h \in HashTypes, c \in ApiContents : ApiUpsert(p, h, c)
    \/ \E h \in HashTypes, sd \in BOOLEAN, ct \in [Paths -> Ctimes],
          fail \in SUBSET Paths : Dedupe(h, sd, ct, fail)
    \/ \E dz \in BOOLEAN, fail \in SUBSET Paths : Cleanup(dz, fail)
    \/ \E p \in Paths, c \in Contents : EnvModify(p, c)
    \/ \E p \in Paths : EnvDelete(p)

Spec == Init /\ [][Next]_vars

\* ------------------------------------------------------------------------
\* BaseWorker.process_parallel_chunked and request_stop (shared/worker.py)
\* ------------------------------------------------------------------------
Items == 1..MaxItems

\* the state after "futures = {executor.submit(...) for item in items}",
\* for n items, of which those in bad make process_func raise
PoolSubmitted(n, bad, threads, batch_size) ==
    [pc |-> "loop",
     n |-> n,
     bad |-> bad,
     thread_count |-> threads,
     batch_size |-> batch_size,
     fut |-> [i \in 1..n |-> "pending"],
     yielded |-> {},
     stop |-> FALSE,
     all_results |-> <<>>,
     batch_results |-> <<>>,
     flushed |-> <<>>,
     doneAtStop |-> {}]

PoolRunning == {i \in 1..pool.n : pool.fut[i] = "running"}
PoolOthers == <<fs, perm, durable, conn, pc, args, work, fut, res, drained,
                results, pending_batch, batches, outcome, clock, envSteps,
                faults, quiet, quietAtStart, dirty, failedWrite, failedAt,
                lastDups, dd, mt, rn, rs>>

\* a pool thread takes the next queued work item
PoolWorkerStart(i) ==
    /\ pool.pc \in {"loop", "final", "exit"}
    /\ i \in 1..pool.n
    /\ pool.fut[i] = "pending"
    /\ Cardinality(PoolRunning) < pool.thread_count
    /\ pool' = [pool EXCEPT !.fut[i] = "running"]
    /\ UNCHANGED PoolOthers

\* process_func returns or raises on a pool thread
PoolWorkerFinish(i) ==
    /\ pool.pc \in {"loop", "final", "exit"}
    /\ i \in 1..pool.n
    /\ pool.fut[i] = "running"
    /\ pool' = [pool EXCEPT !.fut[i] = "done"]
    /\ UNCHANGED PoolOthers

\* request_stop: _stop_requested.set(), from the thread of the caller
RequestStop ==
    /\ pool.pc = "loop"
    /\ ~pool.stop
    /\ pool' = [pool EXCEPT !.stop = TRUE,
                  !.doneAtStop = {i \in 1..pool.n :
                                     pool.fut[i] = "done" /\ i \notin pool.bad}]
    /\ UNCHANGED PoolOthers

\* executor.shutdown(wait=False, cancel_futures=True): queued work items
\* are cancelled, running ones go on
shutdown_cancel(futs) ==
    [i \in DOMAIN futs |-> IF futs[i] = "pending" THEN "cancelled" ELSE futs[i]]

PoolAfterBody(y) == IF y = 1..pool.n THEN "final" ELSE "loop"

\* one iteration of "for future in as_completed(futures)": the stop check
\* first, then the result, the batch callback when the batch is full
PoolYield(i) ==
    /\ pool.pc = "loop"
    /\ i \in 1..pool.n
    /\ pool.fut[i] = "done"
    /\ i \notin pool.yielded
    /\ IF pool.stop
       THEN pool' = [pool EXCEPT !.fut = shutdown_cancel(pool.fut),
                                 !.pc = "final"]
       ELSE LET y == pool.yielded \cup {i}
                br == IF i \in pool.bad THEN pool.batch_results
                      ELSE Append(pool.batch_results, i)
                full == Len(br) >= pool.batch_size
            IN pool' = [pool EXCEPT
                   !.yielded = y,
                   !.all_results = Append(@, i),
                   !.batch_results = IF full THEN <<>> ELSE br,
                   !.flushed = IF full THEN Append(@, br) ELSE @,
                   !.pc = PoolAfterBody(y)]
    /\ UNCHANGED PoolOthers

\* "if batch_callback and batch_results: batch_callback(batch_results)",
\* still inside the with-block
PoolFinalBatch ==
    /\ pool.pc = "final"
    /\ pool' = [pool EXCEPT
           !.flushed = IF pool.batch_results # <<>>
                       THEN Append(@, pool.batch_results) ELSE @,
           !.pc = "exit"]
    /\ UNCHANGED PoolOthers

\* leaving "with ThreadPoolExecutor": shutdown(wait=True) joins the pool
\* threads, then process_parallel_chunked returns all_results
PoolExit ==
    /\ pool.pc = "exit"
    /\ \A i \in 1..pool.n : pool.fut[i] \in {"done", "cancelled"}
    /\ pool' = [pool EXCEPT !.pc = "returned"]
    /\ UNCHANGED PoolOthers

InitPool ==
    /\ fs = [p \in Paths |->
               [exists |-> TRUE,
                content |-> IF p = "/a/notes.txt" THEN 2 ELSE 1,
                mtime |-> 1]]
    /\ perm = [p \in Paths |-> "ok"]
    /\ durable = <<>>
    /\ conn = <<>>
    /\ pc = "idle"
    /\ args = NoArgs
    /\ work = {}
    /\ fut = NoFutures
    /\ res = NoResults
    /\ drained = {}
    /\ results = <<>>
    /\ pending_batch = <<>>
    /\ batches = <<>>
    /\ outcome = "none"
    /\ clock = 0
    /\ envSteps = 0
    /\ faults = 0
    /\ quiet = 0
    /\ quietAtStart = 0
    /\ dirty = FALSE
    /\ failedWrite = <<>>
    /\ failedAt = 0
    /\ lastDups = <<>>
    /\ dd = DedupeIdle
    /\ mt = CleanupIdle
    /\ rn = RenameIdle
    /\ rs = RestoreIdle
    /\ \E n \in 1..MaxItems, bad \in {{}, {1}}, t \in 1..MaxThreads,
          b \in 1..MaxBatch : pool = PoolSubmitted(n, bad, t, b)

NextPool ==
    \/ \E i \in Items : PoolWorkerStart(i)
    \/ \E i \in Items : PoolWorkerFinish(i)
    \/ RequestStop
    \/ \E i \in Items : PoolYield(i)
    \/ PoolFinalBatch
    \/ PoolExit

SpecPool == InitPool /\ [][NextPool]_vars

\* ------------------------------------------------------------------------
\* cmd_dedupe / dedupe, one row at a time (deduper.py), over a tree that
\* holds a fourth file sharing its basename with /a/notes.txt
\* ------------------------------------------------------------------------
DedupePaths == Paths \cup {"/b/notes.txt"}

\* os.path.basename(src), split as os.path.splitext and the "_<counter>"
\* numbering see it: the stem up to its numeric suffixes, the suffixes, the
\* extension ("photo_1.jpg" is root "photo", suffix <<1>>, ext ".jpg")
basename(p) ==
    CASE p = "/a/photo.jpg" -> [root |-> "photo", suffix |-> <<>>, ext |-> ".jpg"]
      [] p = "/a/deep/photo_1.jpg" ->
             [root |-> "photo", suffix |-> <<1>>, ext |-> ".jpg"]
      [] OTHER -> [root |-> "notes", suffix |-> <<>>, ext |-> ".txt"]

\* f"{name}_{counter}{ext}"
numbered(base, counter) == [base EXCEPT !.suffix = Append(@, counter)]

\* the names present in the quarantine directory
QNames(q) == {e.name : e \in q}

safe_move_dest_no_loop(base, names) == base

\* safe_move, the loop "while os.path.exists(dest)": the base name if it is
\* free, else the first free numbered name
safe_move_dest(base, names) ==
    IF base \notin names THEN base
    ELSE LET k == CHOOSE c \in 1..(Cardinality(names) + 1) :
                     /\ numbered(base, c) \notin names
                     /\ \A b \in 1..(c - 1) : numbered(base, b) \in names
         IN numbered(base, k)

\* shutil.move(src, dest) into the directory: os.rename puts the file at
\* dest, replacing what was there
shutil_move(q, src, dest) ==
    {e \in q : e.name # dest} \cup {[name |-> dest, src |-> src]}

\* delete_or_quarantine: "if path == keep['filepath']: continue"
is_keeper_never(path, keep) == FALSE

is_keeper(path, keep) == path = keep.filepath

\* delete_or_quarantine: "except Exception as e: actions.append(failed)"
on_remove_error_dropped(actions, path) == actions

on_remove_error(actions, path) ==
    Append(actions, [path |-> path, outcome |-> "failed", dest |-> NULL])

\* the distinct non-null hashes of the first n rows, in order of first row
RECURSIVE FirstSeen(_, _, _)
FirstSeen(rows, hash_type, n) ==
    IF n = 0 THEN <<>>
    ELSE LET seen == FirstSeen(rows, hash_type, n - 1)
             h == HashCol(rows[n], hash_type)
         IN IF h = NULL \/ h \in Range(seen) THEN seen ELSE Append(seen, h)

\* dedupe: the order of "for i, (h, rows) in enumerate(duplicates.items())",
\* a dict keeps its keys in insertion order
DuplicateItems(rows, hash_type) ==
    LET dups == find_duplicates(rows, hash_type)
    IN SelectSeq(FirstSeen(rows, hash_type, Len(rows)),
                 LAMBDA h : h \in DOMAIN dups)

\* which files are byte-identical in the tree
DedupeLayouts ==
    {f \in [DedupePaths -> {1, 2}] :
        /\ f["/a/photo.jpg"] = 1
        /\ f["/a/deep/photo_1.jpg"] = 1
        /\ f["/b/notes.txt"] = f["/a/notes.txt"] \/ f["/a/notes.txt"] = 1}

\* rowid orders of the store tried
RowOrders ==
    {<<"/a/photo.jpg", "/a/deep/photo_1.jpg", "/a/notes.txt", "/b/notes.txt">>,
     <<"/b/notes.txt", "/a/notes.txt", "/a/deep/photo_1.jpg", "/a/photo.jpg">>}

\* what earlier runs can have left in the quarantine directory
QuarantineChoices ==
    {{},
     {[name |-> basename("/a/notes.txt"), src |-> "earlier run"]},
     {[name |-> basename("/a/photo.jpg"), src |-> "earlier run"],
      [name |-> basename("/a/deep/photo_1.jpg"), src |-> "earlier run 2"]}}

\* getctime of the files: /b/notes.txt is the oldest file of the tree
CtimeChoices ==
    {f \in [DedupePaths -> Ctimes] :
        \A p \in DedupePaths : f["/b/notes.txt"] <= f[p]}

DedupeReady(q) ==
    [pc |-> "idle", hash_type |-> "md5", safe_delete |-> TRUE,
     ctime |-> [p \in DedupePaths |-> 0],
     duplicates |-> <<>>, order |-> <<>>, gi |-> 1, ri |-> 1,
     keep |-> None, actions |-> <<>>, quarantine |-> q,
     q0 |-> q, kept |-> <<>>, moves |-> <<>>]

\* cmd_dedupe up to the loop of dedupe: makedirs, open_db, find_duplicates
DedupeBegin(hash_type, safe_delete, ctime) ==
    /\ dd.pc = "idle"
    /\ dd' = [dd EXCEPT !.pc = "group",
                        !.hash_type = hash_type,
                        !.safe_delete = safe_delete,
                        !.ctime = ctime,
                        !.duplicates = find_duplicates(conn, hash_type),
                        !.order = DuplicateItems(conn, hash_type)]
    /\ UNCHANGED <<fs, perm, durable, conn, scanVars, clock, envSteps, faults,
                   quiet, quietAtStart, dirty, lastDups, pool, mt, rn, rs>>

DedupeRows == dd.duplicates[dd.order[dd.gi]]

\* dedupe: "keep = choose_best_file(rows)" for the next group
DedupeGroup ==
    /\ dd.pc = "group"
    /\ dd.gi <= Len(dd.order)
    /\ LET keep == choose_best_file(DedupeRows, dd.ctime)
       IN dd' = [dd EXCEPT !.pc = "row", !.ri = 1, !.keep = keep,
                           !.kept = Append(@, keep.filepath)]
    /\ UNCHANGED <<fs, perm, durable, conn, scanVars, clock, envSteps, faults,
                   quiet, quietAtStart, dirty, lastDups, pool, mt, rn, rs>>

\* delete_or_quarantine: one iteration of "for row in rows"; fail is
\* os.remove / shutil.move raising for a reason other than a missing file
DedupeRow(fail) ==
    /\ dd.pc = "row"
    /\ LET path == DedupeRows[dd.ri].filepath
           last == dd.ri = Len(DedupeRows)
           base == [dd EXCEPT !.pc = IF last THEN "group" ELSE "row",
                              !.gi = IF last THEN @ + 1 ELSE @,
                              !.ri = IF last THEN 1 ELSE @ + 1]
           dest == safe_move_dest(basename(path), QNames(dd.quarantine))
       IN IF is_keeper(path, dd.keep)
          THEN dd' = base /\ UNCHANGED fs
          ELSE IF fail \/ ~fs[path].exists
          THEN /\ dd' = [base EXCEPT !.actions = on_remove_error(@, path)]
               /\ UNCHANGED fs
          ELSE IF dd.safe_delete
          THEN /\ dd' = [base EXCEPT
                    !.actions = Append(@, [path |-> path, outcome |-> "moved",
                                           dest |-> dest]),
                    !.quarantine = shutil_move(@, path, dest),
                    !.moves = Append(@, [src |-> path, dest |-> dest,
                                 existed |-> dest \in QNames(dd.quarantine)])]
               /\ fs' = [fs EXCEPT ![path].exists = FALSE]
          ELSE /\ dd' = [base EXCEPT
                    !.actions = Append(@, [path |-> path, outcome |-> "deleted",
                                           dest |-> NULL])]
               /\ fs' = [fs EXCEPT ![path].exists = FALSE]
    /\ UNCHANGED <<perm, durable, conn, scanVars, clock, envSteps, faults,
                   quiet, quietAtStart, dirty, lastDups, pool, mt, rn, rs>>

\* dedupe returns (total_sets, actions); cmd_dedupe leaves "with open_db"
DedupeReturn ==
    /\ dd.pc = "group"
    /\ dd.gi > Len(dd.order)
    /\ dd' = [dd EXCEPT !.pc = "done"]
    /\ durable' = open_db_exit(durable, conn, FALSE)
    /\ conn' = durable'
    /\ UNCHANGED <<fs, perm, scanVars, clock, envSteps, faults,
                   quiet, quietAtStart, dirty, lastDups, pool, mt, rn, rs>>

\* the store a finished md5 scan of the tree leaves, rows in the given order
ScannedStore(order) ==
    [i \in 1..Len(order) |->
        hash_worker_keeps_failures(get_file_metadata(order[i]), "md5", 1)]

InitDedupe ==
    /\ \E layout \in DedupeLayouts :
          fs = [p \in DedupePaths |->
                  [exists |-> TRUE, content |-> layout[p], mtime |-> 1]]
    /\ perm = [p \in DedupePaths |-> "ok"]
    /\ \E order \in RowOrders : durable = ScannedStore(order)
    /\ conn = durable
    /\ pc = "idle"
    /\ args = NoArgs
    /\ work = {}
    /\ fut = NoFutures
    /\ res = NoResults
    /\ drained = {}
    /\ results = <<>>
    /\ pending_batch = <<>>
    /\ batches = <<>>
    /\ outcome = "none"
    /\ clock = 0
    /\ envSteps = 0
    /\ faults = 0
    /\ quiet = 0
    /\ quietAtStart = 0
    /\ dirty = FALSE
    /\ failedWrite = <<>>
    /\ failedAt = 0
    /\ lastDups = <<>>
    /\ pool = PoolIdle
    /\ \E q \in QuarantineChoices : dd = DedupeReady(q)
    /\ mt = CleanupIdle
    /\ rn = RenameIdle
    /\ rs = RestoreIdle

NextDedupe ==
    \/ \E h \in HashTypes, sd \in BOOLEAN, ct \in CtimeChoices :
          DedupeBegin(h, sd, ct)
    \/ DedupeGroup
    \/ \E fail \in BOOLEAN : DedupeRow(fail)
    \/ DedupeReturn
    \/ \E p \in DedupePaths : EnvDelete(p)
    \/ \E p \in DedupePaths, c \in Contents : EnvModify(p, c)

SpecDedupe == InitDedupe /\ [][NextDedupe]_vars

\* ------------------------------------------------------------------------
\* run_cleanup, one file check at a time (maintenance.py)
\* ------------------------------------------------------------------------
missing_check_reports_all(p) == TRUE

\* find_missing_files_parallel._check: the path is reported missing
missing_check(p) == ~PathExists(p)

\* find_zero_byte_files_parallel._check: exists and getsize is 0
zero_byte_check(p) == PathExists(p) /\ Size(fs[p].content) = 0

\* run_cleanup: find_zero_byte_files_parallel is called once
\* remove_missing_from_db has returned
zero_check_started_early(m) == m.pc \in {"missing", "zero"}

zero_check_started(m) == m.pc = "zero"

\* run_cleanup: "if delete_zero_bytes:"
zero_delete_always(delete_zero_bytes) == TRUE

zero_delete_enabled(delete_zero_bytes) == delete_zero_bytes

\* find_zero_byte_files_parallel: ex.map returns the results in the order
\* of filepaths, the order in which list_all_filepaths read the rows
zero_bytes_list(m) ==
    SelectSeq([i \in 1..Len(m.store0) |-> m.store0[i].filepath],
              LAMBDA p : p \in m.zero_bytes)

\* write_cleanup_log, the status written for each zero-byte path:
\* "DELETED" if fp in zero_bytes[:zero_deleted] else "FLAGGED"
write_cleanup_log(zero_bytes, zero_deleted) ==
    [p \in Range(zero_bytes) |->
        IF p \in Range(SubSeq(zero_bytes, 1, zero_deleted))
        THEN "DELETED" ELSE "FLAGGED"]

CleanupReady ==
    [pc |-> "idle", delete_zero_bytes |-> FALSE, filepaths |-> {},
     checked |-> {}, missing |-> {}, zchecked |-> {}, zero_bytes |-> {},
     attempted |-> {}, zero_deleted |-> 0, result |-> <<>>,
     store0 |-> <<>>, existedAtCheck |-> [p \in Paths |-> TRUE],
     events |-> <<>>, removed |-> {}, log |-> <<>>]

CleanupOthers == <<perm, scanVars, clock, envSteps, faults, quiet,
                   quietAtStart, dirty, lastDups, pool, dd, rn, rs>>

\* run_cleanup, step 1: filepaths = list_all_filepaths(conn, table_name)
CleanupBegin(delete_zero_bytes) ==
    /\ mt.pc = "idle"
    /\ mt' = [mt EXCEPT !.pc = "missing",
                        !.delete_zero_bytes = delete_zero_bytes,
                        !.filepaths = list_all_filepaths(conn),
                        !.store0 = durable]
    /\ UNCHANGED <<fs, durable, conn>>
    /\ UNCHANGED CleanupOthers

\* a pool thread of find_missing_files_parallel checks one path
MissingCheck(p) ==
    /\ mt.pc = "missing"
    /\ p \in mt.filepaths \ mt.checked
    /\ mt' = [mt EXCEPT !.checked = @ \cup {p},
                        !.missing = IF missing_check(p) THEN @ \cup {p} ELSE @,
                        !.existedAtCheck[p] = PathExists(p),
                        !.events = Append(@, "missing_check")]
    /\ UNCHANGED <<fs, durable, conn>>
    /\ UNCHANGED CleanupOthers

\* remove_missing_from_db(conn, table_name, missing): executemany, commit
RemoveMissing ==
    /\ mt.pc = "missing"
    /\ mt.checked = mt.filepaths
    /\ conn' = remove_missing_from_db(conn, mt.missing)
    /\ durable' = conn'
    /\ mt' = [mt EXCEPT !.pc = "zero",
                        !.events = Append(@, "missing_committed")]
    /\ UNCHANGED fs
    /\ UNCHANGED CleanupOthers

\* a pool thread of find_zero_byte_files_parallel checks one path
ZeroCheck(p) ==
    /\ zero_check_started(mt)
    /\ p \in mt.filepaths \ mt.zchecked
    /\ mt' = [mt EXCEPT !.zchecked = @ \cup {p},
                        !.zero_bytes = IF zero_byte_check(p) THEN @ \cup {p}
                                       ELSE @,
                        !.events = Append(@, IF conn = durable
                                             THEN "zero_check"
                                             ELSE "zero_check_uncommitted")]
    /\ UNCHANGED <<fs, durable, conn>>
    /\ UNCHANGED CleanupOthers

\* a pool thread of delete_zero_byte_files_parallel removes one file; fail
\* is os.remove raising for a reason other than a missing file
ZeroDelete(p, fail) ==
    /\ mt.pc = "zero"
    /\ mt.zchecked = mt.filepaths
    /\ zero_delete_enabled(mt.delete_zero_bytes)
    /\ p \in mt.zero_bytes \ mt.attempted
    /\ IF fail \/ ~fs[p].exists
       THEN /\ mt' = [mt EXCEPT !.attempted = @ \cup {p},
                                !.events = Append(@, "zero_delete")]
            /\ UNCHANGED fs
       ELSE /\ mt' = [mt EXCEPT !.attempted = @ \cup {p},
                                !.zero_deleted = @ + 1,
                                !.removed = @ \cup {p},
                                !.events = Append(@, "zero_delete")]
            /\ fs' = [fs EXCEPT ![p].exists = FALSE]
    /\ UNCHANGED <<durable, conn>>
    /\ UNCHANGED CleanupOthers

\* run_cleanup, step 4: conn.execute("VACUUM"); conn.commit()
Vacuum ==
    /\ mt.pc = "zero"
    /\ mt.zchecked = mt.filepaths
    /\ zero_delete_enabled(mt.delete_zero_bytes) => mt.attempted = mt.zero_bytes
    /\ durable' = conn
    /\ mt' = [mt EXCEPT !.pc = "log", !.events = Append(@, "vacuum")]
    /\ UNCHANGED <<fs, conn>>
    /\ UNCHANGED CleanupOthers

\* run_cleanup, step 5: the log is written and the counts are returned
CleanupReturn ==
    /\ mt.pc = "log"
    /\ mt' = [mt EXCEPT
                !.pc = "returned",
                !.log = write_cleanup_log(zero_bytes_list(mt),
                                          mt.zero_deleted),
                !.result = <<Cardinality(mt.missing),
                             Cardinality(mt.zero_bytes), mt.zero_deleted>>]
    /\ UNCHANGED <<fs, durable, conn>>
    /\ UNCHANGED CleanupOthers

\* the trees tried: each file present or gone, empty or not
CleanupTrees ==
    {f \in [Paths -> [exists : BOOLEAN, content : {0, 1}, mtime : {1}]] : TRUE}

InitCleanup ==
    /\ fs \in CleanupTrees
    /\ perm \in {f \in PermChoices : f["/a/deep/photo_1.jpg"] = "ok"}
    /\ durable = ScannedStore(<<"/a/photo.jpg", "/a/deep/photo_1.jpg",
                               "/a/notes.txt">>)
    /\ conn = durable
    /\ pc = "idle"
    /\ args = NoArgs
    /\ work = {}
    /\ fut = NoFutures
    /\ res = NoResults
    /\ drained = {}
    /\ results = <<>>
    /\ pending_batch = <<>>
    /\ batches = <<>>
    /\ outcome = "none"
    /\ clock = 0
    /\ envSteps = 0
    /\ faults = 0
    /\ quiet = 0
    /\ quietAtStart = 0
    /\ dirty = FALSE
    /\ failedWrite = <<>>
    /\ failedAt = 0
    /\ lastDups = <<>>
    /\ pool = PoolIdle
    /\ dd = DedupeIdle
    /\ mt = CleanupReady
    /\ rn = RenameIdle
    /\ rs = RestoreIdle

NextCleanup ==
    \/ \E dz \in BOOLEAN : CleanupBegin(dz)
    \/ \E p \in Paths : MissingCheck(p)
    \/ RemoveMissing
    \/ \E p \in Paths : ZeroCheck(p)
    \/ \E p \in Paths, fail \in BOOLEAN : ZeroDelete(p, fail)
    \/ Vacuum
    \/ CleanupReturn
    \/ \E p \in Paths, c \in Contents : EnvModify(p, c)
    \/ \E p \in Paths : EnvDelete(p)

SpecCleanup == InitCleanup /\ [][NextCleanup]_vars

\* ------------------------------------------------------------------------
\* safe_rename called from the threads of one pool (shared/path_utils.py,
\* extension_repair/worker.py process_file in quarantine mode)
\* ------------------------------------------------------------------------
Renamers == 1..MaxThreads

\* next_nonconflicting_path, the candidate tried after counter conflicts:
\* base_path itself first, then name_1, name_2, ...
candidate(base, counter) ==
    IF counter = 0 THEN base ELSE numbered(base, counter)

\* os.rename(old_path, target) on the directory: POSIX puts the file at
\* target and silently drops the file that was there
os_rename(dir, old, target) ==
    {e \in dir : e.name # target} \cup {[name |-> target, src |-> old]}

\* one call per thread, thread t renaming the file old[t] to
\* quarantine_dir/basename(old[t])
RenameReady(dir, old) ==
    [pc |-> "on",
     dir |-> dir,
     dir0 |-> dir,
     thr |-> [t \in Renamers |->
                [pc |-> "probe", old |-> old[t], base |-> basename(old[t]),
                 counter |-> 0, status |-> "none", target |-> NULL,
                 existed |-> FALSE]],
     lost |-> {}]

RenameOthers == <<fs, perm, durable, conn, scanVars, clock, envSteps, faults,
                  quiet, quietAtStart, dirty, lastDups, pool, dd, mt, rs>>

\* next_nonconflicting_path: one os.path.exists(candidate) test
Probe(t) ==
    /\ rn.pc = "on"
    /\ rn.thr[t].pc = "probe"
    /\ LET c == candidate(rn.thr[t].base, rn.thr[t].counter)
       IN IF c \in QNames(rn.dir)
          THEN rn' = [rn EXCEPT !.thr[t].counter = @ + 1]
          ELSE rn' = [rn EXCEPT !.thr[t].pc = "rename", !.thr[t].target = c]
    /\ UNCHANGED RenameOthers

\* os.rename(old_path, target) and the return of safe_rename; replaces says
\* whether the platform's rename replaces an existing target (POSIX) or
\* raises FileExistsError (Windows), which safe_rename returns as "error"
Rename(t, replaces) ==
    /\ rn.pc = "on"
    /\ rn.thr[t].pc = "rename"
    /\ LET target == rn.thr[t].target
           there == target \in QNames(rn.dir)
       IN IF there /\ ~replaces
          THEN rn' = [rn EXCEPT !.thr[t].pc = "done",
                                !.thr[t].status = "error",
                                !.thr[t].target = NULL]
          ELSE rn' = [rn EXCEPT
                        !.thr[t].pc = "done",
                        !.thr[t].status = "ok",
                        !.thr[t].existed = there,
                        !.dir = os_rename(@, rn.thr[t].old, target),
                        !.lost = @ \cup {e \in rn.dir : e.name = target}]
    /\ UNCHANGED RenameOthers

\* the files the threads rename: distinct files of the tree
RenameSources ==
    {old \in [Renamers -> DedupePaths] :
        \A s, t \in Renamers : s # t => old[s] # old[t]}

InitRename ==
    /\ fs = [p \in DedupePaths |->
               [exists |-> TRUE, content |-> 1, mtime |-> 1]]
    /\ perm = [p \in DedupePaths |-> "ok"]
    /\ durable = <<>>
    /\ conn = <<>>
    /\ pc = "idle"
    /\ args = NoArgs
    /\ work = {}
    /\ fut = NoFutures
    /\ res = NoResults
    /\ drained = {}
    /\ results = <<>>
    /\ pending_batch = <<>>
    /\ batches = <<>>
    /\ outcome = "none"
    /\ clock = 0
    /\ envSteps = 0
    /\ faults = 0
    /\ quiet = 0
    /\ quietAtStart = 0
    /\ dirty = FALSE
    /\ failedWrite = <<>>
    /\ failedAt = 0
    /\ lastDups = <<>>
    /\ pool = PoolIdle
    /\ dd = DedupeIdle
    /\ mt = CleanupIdle
    /\ rs = RestoreIdle
    /\ \E dir \in QuarantineChoices, old \in RenameSources :
          rn = RenameReady(dir, old)

NextRename ==
    \/ \E t \in Renamers : Probe(t)
    \/ \E t \in Renamers, replaces \in BOOLEAN : Rename(t, replaces)

SpecRename == InitRename /\ [][NextRename]_vars


\* ------------------------------------------------------------------------
\* Undo-transfer restore (plugins/undo_transfer/restorer.py UndoWorker.run)
\* ------------------------------------------------------------------------
MaxEntries == 2

\* the files of the temp directory, in the order the indexer walks them
TempPaths == <<"/t/a.jpg", "/t/x/b.jpg">>
TempSet == {TempPaths[i] : i \in 1..Len(TempPaths)}
TempName(p) == IF p = "/t/a.jpg" THEN "a.jpg" ELSE "b.jpg"
RestoreContents == {1, 2}

\* load_log_entries: one tuple per log line; the hash value is the one the
\* transfer logged for the file's content with the line's algorithm
LogEntry(c, name, algo) ==
    [hash_value |-> compute_hash(c, algo), rel |-> name, algo |-> algo]

LogEntries ==
    {LogEntry(c, name, algo) :
        c \in RestoreContents, name \in {"a.jpg", "b.jpg"}, algo \in HashTypes}

Logs == UNION {[1..n -> LogEntries] : n \in 1..MaxEntries}

\* index_temp_directory_with_cache(hash_type=algo): hash value -> list of
\* the temp files with that hash (add_to_index), an absent key is <<>>
index_temp_directory(temp, algo) ==
    [hv \in {compute_hash(c, algo) : c \in RestoreContents} |->
        SelectSeq(TempPaths,
                  LAMBDA p : compute_hash(temp[p].content, algo) = hv)]

\* "for algo in sorted(hash_types_in_log): indexes[algo] = idx"
build_indexes(temp, entries) ==
    [algo \in {entries[i].algo : i \in 1..Len(entries)} |->
        index_temp_directory(temp, algo)]

RemoveAt(s, i) == SubSeq(s, 1, i - 1) \o SubSeq(s, i + 1, Len(s))

\* _pick_candidate, the position popped from a list of several candidates:
\* the first with the target's basename, else the first of newest mtime
\* (-1 for a file that is gone)
pick_index(candidates, rel, temp) ==
    LET named == {i \in 1..Len(candidates) : TempName(candidates[i]) = rel}
        m(i) == IF temp[candidates[i]].exists
                THEN temp[candidates[i]].mtime ELSE 0 - 1
    IN IF named # {}
       THEN CHOOSE i \in named : \A j \in named : i <= j
       ELSE CHOOSE i \in 1..Len(candidates) :
               /\ \A j \in 1..Len(candidates) : m(j) <= m(i)
               /\ \A j \in 1..(i - 1) : m(j) < m(i)

\* _pick_candidate(idx_map, hv, rel): the chosen path ("" for none), the
\* ambiguity count and idx_map after the pop
pick_candidate(idx_map, hv, rel, temp) ==
    LET candidates == IF hv \in DOMAIN idx_map THEN idx_map[hv] ELSE <<>>
    IN IF candidates = <<>>
       THEN [chosen |-> "", count |-> 0, idx |-> idx_map]
       ELSE IF Len(candidates) = 1
       THEN [chosen |-> candidates[1], count |-> 0,
             idx |-> [idx_map EXCEPT ![hv] = <<>>]]
       ELSE LET i == pick_index(candidates, rel, temp)
            IN [chosen |-> candidates[i], count |-> Len(candidates),
                idx |-> [idx_map EXCEPT ![hv] = RemoveAt(candidates, i)]]

\* UndoWorker.run after indexing: one _restore_one call per log entry
RestoreReady(temp, entries, dry_run) ==
    [pc |-> "on",
     dry_run |-> dry_run,
     temp |-> temp,
     entries |-> entries,
     indexes |-> build_indexes(temp, entries),
     thr |-> [i \in 1..Len(entries) |->
                [pc |-> "pick", current_path |-> "", status |-> "none"]],
     restored_to |-> {},
     restored |-> 0,
     missing |-> 0]

RestoreOthers == <<fs, perm, durable, conn, scanVars, clock, envSteps, faults,
                   quiet, quietAtStart, dirty, lastDups, pool, dd, mt, rn>>

\* _restore_one up to the release of pick_lock, and its return when no
\* candidate was found
RestorePick(i) ==
    /\ rs.pc = "on"
    /\ rs.thr[i].pc = "pick"
    /\ LET e == rs.entries[i]
           r == pick_candidate(rs.indexes[e.algo], e.hash_value, e.rel,
                               rs.temp)
       IN IF r.chosen = ""
          THEN rs' = [rs EXCEPT !.thr[i].pc = "done",
                                !.thr[i].status = "missing"]
          ELSE rs' = [rs EXCEPT !.thr[i].pc = "move",
                                !.thr[i].current_path = r.chosen,
                                !.indexes[e.algo] = r.idx]
    /\ UNCHANGED RestoreOthers

\* _restore_one after the pick: the dry-run return, or shutil.move of the
\* picked file and the return ("error" when the move raises: the file is
\* no longer at current_path)
RestoreMove(i) ==
    /\ rs.pc = "on"
    /\ rs.thr[i].pc = "move"
    /\ LET p == rs.thr[i].current_path
       IN IF rs.dry_run
          THEN rs' = [rs EXCEPT !.thr[i].pc = "done",
                                !.thr[i].status = "restored"]
          ELSE IF rs.temp[p].exists
          THEN rs' = [rs EXCEPT
                        !.thr[i].pc = "done",
                        !.thr[i].status = "restored",
                        !.temp[p].exists = FALSE,
                        !.restored_to = @ \cup {[entry |-> i, src |-> p]}]
          ELSE rs' = [rs EXCEPT !.thr[i].pc = "done",
                                !.thr[i].status = "error"]
    /\ UNCHANGED RestoreOthers

\* the restore loop has consumed every result: restored and missing
\* counters ("error" counts as missing)
RestoreReturn ==
    /\ rs.pc = "on"
    /\ \A i \in 1..Len(rs.entries) : rs.thr[i].pc = "done"
    /\ LET ok == {i \in 1..Len(rs.entries) : rs.thr[i].status = "restored"}
       IN rs' = [rs EXCEPT !.pc = "done",
                           !.restored = Cardinality(ok),
                           !.missing = Len(rs.entries) - Cardinality(ok)]
    /\ UNCHANGED RestoreOthers

\* the temp directory before the run
TempTrees ==
    {t \in [TempSet -> [exists : {TRUE}, content : RestoreContents,
                        mtime : {1, 2}]] :
        t["/t/a.jpg"].mtime = 1}

InitRestore ==
    /\ fs = [p \in Paths |-> [exists |-> FALSE, content |-> 0, mtime |-> 0]]
    /\ perm = [p \in Paths |-> "ok"]
    /\ durable = <<>>
    /\ conn = <<>>
    /\ pc = "idle"
    /\ args = NoArgs
    /\ work = {}
    /\ fut = NoFutures
    /\ res = NoResults
    /\ drained = {}
    /\ results = <<>>
    /\ pending_batch = <<>>
    /\ batches = <<>>
    /\ outcome = "none"
    /\ clock = 0
    /\ envSteps = 0
    /\ faults = 0
    /\ quiet = 0
    /\ quietAtStart = 0
    /\ dirty = FALSE
    /\ failedWrite = <<>>
    /\ failedAt = 0
    /\ lastDups = <<>>
    /\ pool = PoolIdle
    /\ dd = DedupeIdle
    /\ mt = CleanupIdle
    /\ rn = RenameIdle
    /\ \E temp \in TempTrees, entries \in Logs, dry_run \in BOOLEAN :
          rs = RestoreReady(temp, entries, dry_run)

NextRestore ==
    \/ \E i \in 1..MaxEntries : i <= Len(rs.entries) /\ RestorePick(i)
    \/ \E i \in 1..MaxEntries : i <= Len(rs.entries) /\ RestoreMove(i)
    \/ RestoreReturn

SpecRestore == InitRestore /\ [][NextRestore]_vars

\* ========================================================================
\* Properties
\* ========================================================================
RowOf(rows, p) == rows[RowIndex(rows, p)]
ResultPaths == {results[i].filepath : i \in 1..Len(results)}

\* the step is ScanBegin: the only command that leaves dirty FALSE
ScanStep == clock' = clock + 1 /\ ~dirty'

\* nothing has touched the tree or the store since build_work_list ran
Fresh ==
    /\ outcome \in {"running", "ok"}
    /\ ~dirty
    /\ batches = <<>>
    /\ failedWrite = <<>>

\* C1: from one step to the next, a record that stays in the store keeps a
\* non-null hash_md5 non-null and a non-null hash_sha256 non-null.
C1_HashColumnsNeverErased ==
    [][\A i \in 1..Len(durable) : \A j \in 1..Len(durable') :
          durable[i].filepath = durable'[j].filepath =>
             /\ (durable[i].hash_md5 # NULL => durable'[j].hash_md5 # NULL)
             /\ (durable[i].hash_sha256 # NULL
                    => durable'[j].hash_sha256 # NULL)]_vars

\* C2: the table never holds two rows with the same filepath, neither
\* committed nor inside the open transaction.
C2_OneRecordPerPath ==
    /\ \A i, j \in 1..Len(durable) :
          durable[i].filepath = durable[j].filepath => i = j
    /\ \A i, j \in 1..Len(conn) :
          conn[i].filepath = conn[j].filepath => i = j

\* a later scan has rewritten, in place, a record an earlier scan imported
C2_Witness ==
    \E i \in 1..Len(durable) :
        /\ durable[i].imported_on = 1
        /\ durable[i].last_scanned_on = 2

\* C3 (as claimed): an incremental scan that follows a completed
\* incremental scan, with nothing happening since that one began, builds an
\* empty work list.
C3_SecondWorkListEmpty ==
    (quietAtStart >= 1 /\ ~args.full /\ ~dirty /\ outcome \in {"running", "ok"})
        => work = {}

\* C3 (amended): that work list holds exactly the files whose hashing
\* failed in the first run.
C3_SecondWorkListIsFailures ==
    [][(ScanStep /\ quiet >= 1 /\ ~args'.full)
          => {m.filepath : m \in work'} = WorkPaths \ ResultPaths]_vars

\* the second of two undisturbed incremental scans has begun, after a first
\* one that stored a record and dropped an unreadable file
C3_Witness ==
    /\ quietAtStart >= 1
    /\ ~args.full
    /\ ~dirty
    /\ outcome \in {"running", "ok"}
    /\ durable # <<>>
    /\ work # {}

\* C4: a file whose metadata can be read is in the work list iff the store
\* has no record for its path, or the scan is full, or the stored
\* modified_on differs from the file's modified_on.
C4_RescanDecisionRule ==
    Fresh =>
      \A p \in Paths :
         (Listed(p) /\ CanStat(p)) =>
            (p \in WorkPaths <=>
                \/ ~HasRecord(conn, p)
                \/ args.full
                \/ RowOf(conn, p).modified_on # IsoFormat(fs[p].mtime))

\* an incremental scan took a recorded file whose mtime had changed and
\* left out a recorded, unchanged one
C4_Witness ==
    /\ Fresh
    /\ ~args.full
    /\ \E p \in WorkPaths :
          HasRecord(conn, p) /\ RowOf(conn, p).modified_on # NULL
    /\ \E q \in Paths \ WorkPaths : Listed(q) /\ CanStat(q)

\* records whose hashing has completed and that no batch callback call has
\* received yet (the call in progress has not received its batch)
CompletedNotFlushed ==
    {p \in WorkPaths :
        /\ fut[p] = "done"
        /\ res[p] # None
        /\ \A i \in 1..Len(batches) : res[p] \notin Range(batches[i])}

C6_FlushFailurePropagates ==
    failedWrite # <<>> =>
        /\ pc \in {"raising", "idle"}
        /\ pc = "idle" => outcome = "error"
        /\ \A i \in 1..Len(batches) : batches[i] # failedWrite

\* the callback raised inside the loop while futures were still undrained,
\* and the error has reached the caller of the scan command
C6_Witness ==
    /\ failedWrite # <<>>
    /\ pc = "idle"
    /\ outcome = "error"
    /\ ResultPaths # WorkPaths

\* the row of the table that is record rec as a scan stored it
Stored(rows, rec) ==
    \E i \in 1..Len(rows) :
        /\ rows[i].filepath = rec.filepath
        /\ rows[i].last_scanned_on = rec.last_scanned_on
        /\ rows[i].hash_md5 = rec.hash_md5
        /\ rows[i].hash_sha256 = rec.hash_sha256
        /\ rows[i].modified_on = rec.modified_on

\* C7: after a failed flush has propagated and the connection is closed,
\* no record of the failed batch is in the table and every record of the
\* batches flushed before it is.
C7_FlushAllOrNothing ==
    (pc = "idle" /\ outcome = "error") =>
        /\ \A i \in 1..Len(failedWrite) : ~Stored(durable, failedWrite[i])
        /\ \A b \in 1..Len(batches) : \A i \in 1..Len(batches[b]) :
              Stored(durable, batches[b][i])

\* the write of the second record of a batch raised, after the first
\* record had been written inside the transaction
C7_Witness ==
    /\ pc = "idle"
    /\ outcome = "error"
    /\ failedAt = 2

\* C8: a run that was not disturbed returns exactly one record for every
\* file of the work list that can be read and none for the others, and
\* only a failing batch callback makes it end with an error.
C8_HashFailuresAreSkipped ==
    /\ ((pc = "final" \/ (pc = "idle" /\ outcome = "ok")) /\ ~dirty) =>
          /\ ResultPaths = {p \in WorkPaths : CanRead(p)}
          /\ Len(results) = Cardinality(ResultPaths)
    /\ outcome = "error" => failedWrite # <<>>

\* a run over readable and unreadable files has returned normally
C8_Witness ==
    /\ pc = "idle"
    /\ outcome = "ok"
    /\ ~dirty
    /\ results # <<>>
    /\ \E p \in WorkPaths : ~CanRead(p)

\* items whose result some call of the batch callback has received
PoolFlushedItems ==
    UNION {Range(pool.flushed[k]) : k \in 1..Len(pool.flushed)}

\* C9: when process_parallel_chunked has returned, every result that had
\* completed before the stop signal was set has been passed to the batch
\* callback.
C9_CompletedBeforeStopIsFlushed ==
    pool.pc = "returned" => pool.doneAtStop \subseteq PoolFlushedItems


\* the rows of the table whose column for hash_type holds h
RowsWithHash(rows, hash_type, h) ==
    {i \in 1..Len(rows) : HashCol(rows[i], hash_type) = h}

\* C10: find_duplicates returns a group for exactly the non-null hash
\* values stored for two or more records, and each group lists all and
\* only the records with that value, once each.
C10_GroupingCorrect ==
    \A hash_type \in HashTypes :
        LET dups == find_duplicates(conn, hash_type)
        IN /\ DOMAIN dups =
                {HashCol(conn[i], hash_type) : i \in
                    {k \in 1..Len(conn) :
                        /\ HashCol(conn[k], hash_type) # NULL
                        /\ Cardinality(RowsWithHash(conn, hash_type,
                              HashCol(conn[k], hash_type))) >= 2}}
           /\ \A h \in DOMAIN dups :
                /\ Range(dups[h]) =
                      {conn[i] : i \in RowsWithHash(conn, hash_type, h)}
                /\ Len(dups[h]) =
                      Cardinality(RowsWithHash(conn, hash_type, h))
           /\ \A i \in 1..Len(conn) :
                (\/ HashCol(conn[i], hash_type) = NULL
                 \/ Cardinality(RowsWithHash(conn, hash_type,
                        HashCol(conn[i], hash_type))) = 1)
                  => \A h \in DOMAIN dups : conn[i] \notin Range(dups[h])

\* a dedupe run found a group of two records and left a third record with
\* a unique hash out
C10_Witness ==
    /\ lastDups # <<>>
    /\ \E h \in DOMAIN lastDups : Len(lastDups[h]) = 2
    /\ \E i \in 1..Len(conn) :
          \A h \in DOMAIN lastDups : conn[i] \notin Range(lastDups[h])

\* ------------------------------------------------------------------------
\* Deduper, maintenance and safe_rename
\* ------------------------------------------------------------------------
\* the paths of the g-th duplicate group of the run
GroupPaths(g) ==
    LET rows == dd.duplicates[dd.order[g]]
    IN {rows[i].filepath : i \in 1..Len(rows)}

\* the indexes of the returned action list that name path p
ActionsOn(p) == {i \in 1..Len(dd.actions) : dd.actions[i].path = p}

\* C11: when dedupe has returned, every duplicate group has exactly one
\* keeper, a record of the group; no delete or move was carried out or even
\* attempted on the keeper, and one was attempted on every other record of
\* the group.
C11_ExactlyOneKeeper ==
    dd.pc = "done" =>
       /\ Len(dd.kept) = Len(dd.order)
       /\ \A g \in 1..Len(dd.order) :
             /\ dd.kept[g] \in GroupPaths(g)
             /\ ActionsOn(dd.kept[g]) = {}
             /\ \A i \in 1..Len(dd.moves) : dd.moves[i].src # dd.kept[g]
             /\ \A p \in GroupPaths(g) \ {dd.kept[g]} : ActionsOn(p) # {}

\* a run over two duplicate groups has returned with an action for the
\* non-keeper of each
C11_Witness ==
    /\ dd.pc = "done"
    /\ Len(dd.order) = 2
    /\ Len(dd.actions) = 2
    /\ \E i \in 1..2 : dd.actions[i].outcome # "failed"

\* C12 (as claimed): whenever the group being processed consists of
\* /a/photo.jpg and /a/deep/photo_1.jpg, both on disk, the keeper is
\* /a/photo.jpg, whatever the creation timestamps of the two files.
C12_PhotoIsAlwaysKeeper ==
    (/\ dd.pc = "row"
     /\ GroupPaths(dd.gi) = {"/a/photo.jpg", "/a/deep/photo_1.jpg"}
     /\ PathExists("/a/photo.jpg")
     /\ PathExists("/a/deep/photo_1.jpg"))
       => dd.keep.filepath = "/a/photo.jpg"

\* two paths the scorer tells apart by the creation timestamp only
SameButCtime(a, b) ==
    /\ CopyIndicator(a) = CopyIndicator(b)
    /\ SepCount(a) = SepCount(b)
    /\ NameLen(a) = NameLen(b)

\* C13 (as claimed): of the two files of a group that agree on copy
\* indicator, separator count and name length and are both on disk, the one
\* with the smaller creation timestamp has the lower score and is the keeper.
C13_OlderFileIsKeeper ==
    (/\ dd.pc = "row"
     /\ Len(DedupeRows) = 2
     /\ SameButCtime(DedupeRows[1].filepath, DedupeRows[2].filepath)
     /\ PathExists(DedupeRows[1].filepath)
     /\ PathExists(DedupeRows[2].filepath)
     /\ dd.ctime[DedupeRows[1].filepath] # dd.ctime[DedupeRows[2].filepath])
       => LET a == DedupeRows[1].filepath
              b == DedupeRows[2].filepath
              older == IF dd.ctime[a] < dd.ctime[b] THEN a ELSE b
              newer == IF dd.ctime[a] < dd.ctime[b] THEN b ELSE a
          IN /\ score_file(older, dd.ctime) < score_file(newer, dd.ctime)
             /\ dd.keep.filepath = older

\* C14: every safe_move of the run ended at a name that was free just
\* before the move; each moved file is in the quarantine directory under
\* its own name, the names are pairwise distinct, and every file that was
\* in the directory before the run is still there.
C14_QuarantineNeverOverwrites ==
    /\ \A i \in 1..Len(dd.moves) :
          /\ ~dd.moves[i].existed
          /\ [name |-> dd.moves[i].dest, src |-> dd.moves[i].src]
                \in dd.quarantine
          /\ \A j \in 1..Len(dd.moves) :
                i # j => dd.moves[i].dest # dd.moves[j].dest
    /\ dd.q0 \subseteq dd.quarantine

\* two distinct files sharing a basename were moved in one run, into a
\* directory that already held a file of that name
C14_Witness ==
    \E i, j \in 1..Len(dd.moves) :
       /\ i # j
       /\ basename(dd.moves[i].src) = basename(dd.moves[j].src)
       /\ basename(dd.moves[i].src) \in QNames(dd.q0)

\* C15 (as claimed): whenever a call of safe_rename has returned "ok", its
\* target did not exist just before its rename, and no file that was in the
\* directory or was put there by another call has been replaced; also when
\* the calls run on several threads.
C15_SafeRenameNeverOverwrites ==
    /\ \A t \in Renamers : rn.thr[t].status = "ok" => ~rn.thr[t].existed
    /\ rn.lost = {}

\* C16: when dedupe has returned, the action list holds exactly one entry
\* for each non-keeper record of each group and none else; an entry that is
\* not "failed" names a file that is gone from its place, a quarantine run
\* records "moved" or "failed", a hard-delete run "deleted" or "failed".
C16_EveryOutcomeRecorded ==
    dd.pc = "done" =>
       /\ \A g \in 1..Len(dd.order) :
             \A p \in GroupPaths(g) \ {dd.kept[g]} :
                Cardinality(ActionsOn(p)) = 1
       /\ \A i \in 1..Len(dd.actions) :
             /\ \E g \in 1..Len(dd.order) :
                   dd.actions[i].path \in GroupPaths(g) \ {dd.kept[g]}
             /\ dd.actions[i].outcome \in
                   (IF dd.safe_delete THEN {"moved", "failed"}
                    ELSE {"deleted", "failed"})
             /\ dd.actions[i].outcome # "failed"
                   => ~fs[dd.actions[i].path].exists

\* a run whose first removal failed went on to remove a file of a later
\* group
C16_Witness ==
    /\ dd.pc = "done"
    /\ Len(dd.order) = 2
    /\ Len(dd.actions) = 2
    /\ dd.actions[1].outcome = "failed"
    /\ dd.actions[2].outcome # "failed"

\* C17: once remove_missing_from_db has returned, the store holds exactly
\* the records it held when run_cleanup began whose path existed when it
\* was checked, unchanged and in their order, and they are committed.
C17_MissingCleanupPrecise ==
    mt.pc \in {"zero", "log", "returned"} =>
       /\ durable = SelectSeq(mt.store0,
                              LAMBDA r : mt.existedAtCheck[r.filepath])
       /\ conn = durable

\* a cleanup has returned after removing some of the records and keeping
\* others
C17_Witness ==
    /\ mt.pc = "returned"
    /\ Len(durable) >= 1
    /\ Len(durable) < Len(mt.store0)

\* C18: in the order of the steps of one run_cleanup, every zero-byte check
\* comes after the committed deletion of the missing-file records and sees
\* no uncommitted change, no missing-file step follows a zero-byte check,
\* and VACUUM comes after every record deletion and every file deletion.
C18_MaintenanceOrdering ==
    \A i \in 1..Len(mt.events) :
       /\ mt.events[i] # "zero_check_uncommitted"
       /\ mt.events[i] = "zero_check" =>
             /\ \E k \in 1..(i - 1) : mt.events[k] = "missing_committed"
             /\ \A k \in (i + 1)..Len(mt.events) :
                   mt.events[k] \notin {"missing_check", "missing_committed"}
       /\ mt.events[i] = "vacuum" =>
             \A k \in 1..Len(mt.events) :
                mt.events[k] \in {"missing_committed", "zero_delete"} => k < i

\* a cleanup that removed records of missing files and deleted a zero-byte
\* file has returned
C18_Witness ==
    /\ mt.pc = "returned"
    /\ mt.missing # {}
    /\ mt.zero_deleted > 0

\* C20: a step of run_cleanup changes the tree only by removing a file
\* that its zero-byte check had reported, and only when delete_zero_bytes
\* is set; without it the deleted count stays 0.
C20_ZeroByteDeletionOptIn ==
    [][mt' # mt =>
         /\ \A p \in Paths :
               fs'[p] # fs[p] =>
                  /\ mt.delete_zero_bytes
                  /\ p \in mt.zero_bytes
                  /\ fs[p].exists /\ ~fs'[p].exists
         /\ ~mt'.delete_zero_bytes => mt'.zero_deleted = 0]_vars

\* a cleanup without the opt-in has returned after reporting a zero-byte
\* file, which is still on disk
C20_Witness ==
    /\ mt.pc = "returned"
    /\ ~mt.delete_zero_bytes
    /\ \E p \in mt.zero_bytes : fs[p].exists
    /\ mt.result[3] = 0

\* C19 (as claimed): when dedupe has returned, the store holds no record
\* for a file the run deleted or moved to quarantine.
C19_RemovedFilesLoseTheirRecord ==
    dd.pc = "done" =>
       \A i \in 1..Len(dd.actions) :
          dd.actions[i].outcome \in {"moved", "deleted"}
             => ~HasRecord(durable, dd.actions[i].path)

\* ------------------------------------------------------------------------
\* Restore, writers, tie-break, scanner, hasher, maintenance report
\* ------------------------------------------------------------------------
\* C21 (as claimed): in every state of a restore run, no two log entries
\* have picked the same physical file of the temp directory, also when the
\* log mixes MD5 and SHA-256 entries.
C21_NoFileClaimedTwice ==
    rs.pc \in {"on", "done"} =>
       \A i, j \in 1..Len(rs.entries) :
          (i # j /\ rs.thr[i].current_path # "")
             => rs.thr[i].current_path # rs.thr[j].current_path
\* the step is taken by a pool thread of run_hashing: a queued future
\* becomes done
PoolThreadStep == \E p \in Paths : fut[p] = "pending" /\ fut'[p] = "done"

C23_TieBreakFirstOccurrence ==
    [][(dd.pc = "group" /\ dd'.pc = "row") =>
         LET rows == DedupeRows
             keep == dd'.keep.filepath
         IN /\ \A i, j \in 1..Len(rows) :
                  i < j => RowIndex(conn, rows[i].filepath)
                              < RowIndex(conn, rows[j].filepath)
            /\ \A j \in 1..Len(rows) :
                  score_file(rows[j].filepath, dd.ctime)
                        = score_file(keep, dd.ctime)
                     => RowIndex(conn, keep)
                           <= RowIndex(conn, rows[j].filepath)]_vars

\* a keeper was chosen from a group in which another row has the same
\* score, and the tree has not changed since
C23_Witness ==
    /\ dd.pc = "row"
    /\ dd.ri = 1
    /\ envSteps = 0
    /\ \E j \in 1..Len(DedupeRows) :
          /\ DedupeRows[j].filepath # dd.keep.filepath
          /\ score_file(DedupeRows[j].filepath, dd.ctime)
                = score_file(dd.keep.filepath, dd.ctime)
\* C24: build_work_list returns without raising; a listed file whose
\* metadata cannot be read is not in the work list, and every other listed
\* file is in the work list exactly when the decision rule says so.
C24_UnreadableFilesSkipped ==
    [][ScanStep =>
         /\ outcome' \in {"ok", "running"}
         /\ \A p \in Paths :
               (Listed(p) /\ ~CanStat(p)) =>
                  p \notin {m.filepath : m \in work'}
         /\ \A p \in Paths :
               (Listed(p) /\ CanStat(p)) =>
                  (get_file_metadata(p) \in work' <=>
                      needs_rescan(get_db_record(ModifiedIndex(conn), p),
                                   get_file_metadata(p), ~args'.full))]_vars

\* a scan has built a non-empty work list from a tree that holds a file
\* whose metadata cannot be read
C24_Witness ==
    /\ pc = "loop"
    /\ drained = {}
    /\ ~dirty
    /\ work # {}
    /\ \E p \in Paths : Listed(p) /\ ~CanStat(p)
\* path p has the same record, or no record, in both row lists
SameRecord(a, b, p) ==
    /\ HasRecord(a, p) <=> HasRecord(b, p)
    /\ HasRecord(a, p) => RowOf(a, p) = RowOf(b, p)

\* C25: no step of a running scan creates or changes the record of a file
\* of the work list that cannot be read (its hashing fails), neither in
\* the rows seen through the connection nor in the committed rows.
C25_FailedHashLeavesStoreUnchanged ==
    [][pc # "idle" =>
         \A p \in WorkPaths :
            ~CanRead(p) => /\ SameRecord(conn, conn', p)
                           /\ SameRecord(durable, durable', p)]_vars

\* a scan has committed a batch after the hashing of an already recorded
\* file failed and that of a new path failed too
C25_Witness ==
    /\ pc = "idle"
    /\ outcome = "ok"
    /\ batches # <<>>
    /\ \E p \in WorkPaths : ~CanRead(p) /\ HasRecord(durable, p)
    /\ \E p \in WorkPaths : ~CanRead(p) /\ ~HasRecord(durable, p)
\* the positions (batch, index) at which record r was handed to the batch
\* callback
Deliveries(r) ==
    {<<i, k>> \in (1..Len(batches)) \X (1..Cardinality(Paths)) :
        k <= Len(batches[i]) /\ batches[i][k] = r}

\* C26: when a scan has returned normally, every record of the result list
\* was handed to the batch callback in exactly one batch, every batch holds
\* between 1 and batch_size records, and the batches hold nothing but the
\* records of the result list.
C26_ExactlyOnceDelivery ==
    (pc = "idle" /\ outcome = "ok") =>
       /\ \A n \in 1..Len(results) :
             Cardinality(Deliveries(results[n])) = 1
       /\ \A i \in 1..Len(batches) :
             /\ Len(batches[i]) >= 1
             /\ Len(batches[i]) <= args.batch_size
             /\ Range(batches[i]) \subseteq Range(results)

\* a scan has returned normally after a full batch from the loop and a
\* shorter last batch
C26_Witness ==
    /\ pc = "idle"
    /\ outcome = "ok"
    /\ Len(batches) = 2
    /\ Len(batches[1]) = 2
    /\ Len(batches[2]) = 1
\* C27 (as claimed): when run_cleanup has returned and nothing else has
\* touched the tree during the run, every path that has a record in the
\* store exists on disk, with or without delete_zero_bytes.
C27_StoreAgreesWithDisk ==
    (mt.pc = "returned" /\ envSteps = 0) =>
       \A i \in 1..Len(durable) : fs[durable[i].filepath].exists
\* C30 (as claimed): in the log written when run_cleanup returns, a
\* zero-byte path has the status DELETED if and only if the run removed
\* that file from disk, whichever deletions failed.
C30_ReportMarksDeletionsTruthfully ==
    mt.pc = "returned" =>
       \A p \in mt.zero_bytes :
          mt.log[p] = "DELETED" <=> p \in mt.removed
\* C28 (as claimed): whenever a step of dedupe deletes a file or moves it
\* to quarantine, the keeper of its group is on disk and the removed file
\* has, at that moment, the same content as the keeper; also when files
\* were modified after the scan that stored their hashes.
C28_OnlyTrueDuplicatesRemoved ==
    [][dd' # dd =>
         \A p \in DedupePaths :
            (fs[p].exists /\ ~fs'[p].exists) =>
               /\ fs[dd.keep.filepath].exists
               /\ fs[p].content = fs[dd.keep.filepath].content]_vars
\* C29 (as claimed): when an incremental scan with algorithm A has returned
\* normally, undisturbed, after an earlier undisturbed scan (with A or with
\* the other algorithm), the store holds for every readable file the
\* hash-A value of its content, which is what a full scan with A stores.
C29_IncrementalAgreesWithFull ==
    (/\ pc = "idle"
     /\ outcome = "ok"
     /\ ~args.full
     /\ ~dirty
     /\ quietAtStart >= 1) =>
       \A p \in Paths :
          CanRead(p) =>
             /\ HasRecord(durable, p)
             /\ HashCol(RowOf(durable, p), args.hash)
                   = compute_hash(fs[p].content, args.hash)

====
